---- MODULE Spec2Model ----
(***************************************************************************)
(* A model of Sqlite/dns_cache.py: the DNSResolver strategy chain and the  *)
(* DNSCache time-to-live store kept in the dns_records table.              *)
(*                                                                         *)
(* Timestamps are integers (clock ticks).  The table is a bag of rows: the *)
(* surrogate id column is never selected, compared or updated by any       *)
(* statement of the program, so a row is represented by its six other      *)
(* columns and a bag still distinguishes one copy of a row from two.       *)
(* Python values are records tagged by kind, so that a returned None, str, *)
(* dict, list or a raised exception can be told apart.                     *)
(***************************************************************************)
EXTENDS Bags, FiniteSets, Integers, Sequences, TLC

\* ---- bounds of the model -------------------------------------------------
MaxTime == 1
MaxTTL == 1
MaxDelay == 1
MaxLines == 1

\* ---- inputs -----------------------------------------------------------------
Hostnames == {"a.test", "b.test"}
RecordTypes == {"A", "AAAA"}
\* The keys add_record and get_record are called with: every hostname under
\* the type lookup_and_cache uses, and one hostname under a second type.
Keys == (Hostnames \X {"A"}) \cup {<<"a.test", "AAAA">>}
IPs == {"10.0.0.1", "10.0.0.2"}
\* --ttl is any int: one value that is not positive, one that is.
TTLs == {-1, MaxTTL}
Systems == {"Windows", "Linux"}

\* ---- Python values ----------------------------------------------------------
None == [kind |-> "None"]
Str(s) == [kind |-> "str", value |-> s]
Raise(e) == [kind |-> "raise", exc |-> e]
NotCalled == [kind |-> "not called"]
Truthy(v) == v.kind \notin {"None", "raise"}

VARIABLES
    dns_records,    \* the table: a bag of rows
    now,            \* what datetime.now() returns
    resolverCalls,  \* number of DNSResolver.resolve calls the last operation made
    op,             \* the last operation and its arguments
    ret,            \* what the last operation returned (or raised)
    resolved,       \* what DNSResolver.resolve returned inside the last operation
    replaced,       \* the row the last add_record found under its key, if any
    rcall,          \* a DNSResolver.resolve call in progress: its position and trace
    cli,            \* a run of main(): its position, arguments and connection
    callers,        \* lookup_and_cache calls in progress, one per caller
    lastPut         \* the arguments and clock of the last add_record of a caller

vars == <<dns_records, now, resolverCalls, op, ret, resolved, replaced,
          rcall, cli, callers, lastPut>>

\* The state of the cache object and of what its last operation did.
cacheVars == <<dns_records, now, resolverCalls, op, ret, resolved, replaced>>

\* ---- DNSResolver ------------------------------------------------------------
\* One line of an external tool's output: an optional label and a token that
\* is a dotted quad or something else (a CNAME target).
Labels == {"", "Address:"}
Tokens == IPs \cup {"alias.test."}
Lines == [label : Labels, token : Tokens]
IsIPv4(token) == token \in IPs

\* What running the external tool can do: the executable is missing, it exits
\* non-zero, or it exits zero with some lines of text.
ToolOutputs == UNION {[1..n -> Lines] : n \in 0..MaxLines}
ToolResults == {[kind |-> "FileNotFoundError"], [kind |-> "CalledProcessError"]}
               \cup {[kind |-> "output", lines |-> o] : o \in ToolOutputs}

\* What socket.gethostbyname can do.
SocketResults == {[kind |-> "gaierror"]} \cup {[kind |-> "ok", ip |-> i] : i \in IPs}

RECURSIVE FirstMatch(_, _, _)
FirstMatch(lines, label, i) ==
    IF i > Len(lines) THEN None
    ELSE IF lines[i].label = label /\ IsIPv4(lines[i].token) THEN Str(lines[i].token)
    ELSE FirstMatch(lines, label, i + 1)

resolve_windows(tool) ==
    IF tool.kind = "CalledProcessError" THEN None
    ELSE IF tool.kind = "FileNotFoundError" THEN Raise("FileNotFoundError")
    ELSE FirstMatch(tool.lines, "Address:", 1)

resolve_unix(tool) ==
    IF tool.kind = "CalledProcessError" THEN None
    ELSE IF tool.kind = "FileNotFoundError" THEN Raise("FileNotFoundError")
    ELSE FirstMatch(tool.lines, "", 1)

resolve_socket(sock) ==
    IF sock.kind = "ok" THEN Str(sock.ip) ELSE None

resolve(sys, sock, tool) ==
    LET ip == resolve_socket(sock)
    IN  IF Truthy(ip) THEN ip
        ELSE IF sys = "Windows" THEN resolve_windows(tool)
        ELSE resolve_unix(tool)

\* ---- the dns_records table --------------------------------------------------
NoRow == [kind |-> "no row"]

Row(hostname, ip_address, record_type, ttl, created_at, expires_at) ==
    [hostname |-> hostname, ip_address |-> ip_address, record_type |-> record_type,
     ttl |-> ttl, created_at |-> created_at, expires_at |-> expires_at]

\* Faulty variant: the key is the hostname alone, the record type is ignored.
RowsFor_hostname_only(tbl, hostname, record_type) ==
    {r \in BagToSet(tbl) : r.hostname = hostname}

\* The rows of tbl under the key (hostname, record_type).
RowsFor(tbl, hostname, record_type) ==
    {r \in BagToSet(tbl) : r.hostname = hostname /\ r.record_type = record_type}

\* The row add_record finds under its key before it writes, if any.
Found(tbl, hostname, record_type) ==
    LET hit == RowsFor(tbl, hostname, record_type)
    IN  IF hit = {} THEN NoRow ELSE CHOOSE r \in hit : TRUE

\* The sub-bag of the rows in keep.
Restrict(tbl, keep) == [r \in (BagToSet(tbl) \cap keep) |-> CopiesIn(r, tbl)]

RECURSIVE Copies(_, _)
Copies(tbl, S) ==
    IF S = {} THEN 0
    ELSE LET r == CHOOSE x \in S : TRUE IN CopiesIn(r, tbl) + Copies(tbl, S \ {r})

\* Faulty variant: no conflict clause and no UNIQUE constraint, every write appends.
Upsert_always_insert(tbl, excluded) == tbl (+) SetToBag({excluded})

\* Faulty variant: the DO UPDATE list leaves out created_at.
Upsert_keep_created_at(tbl, excluded) ==
    LET hit == RowsFor(tbl, excluded.hostname, excluded.record_type)
    IN  IF hit = {} THEN tbl (+) SetToBag({excluded})
        ELSE Restrict(tbl, BagToSet(tbl) \ hit)
             (+) [r \in {[excluded EXCEPT !.created_at = (CHOOSE x \in hit : TRUE).created_at]}
                     |-> Copies(tbl, hit)]

\* Faulty variant: DO UPDATE ... WHERE excluded.ttl >= ttl (the longer ttl wins).
Upsert_keep_longer_ttl(tbl, excluded) ==
    LET hit == RowsFor(tbl, excluded.hostname, excluded.record_type)
    IN  IF hit = {} THEN tbl (+) SetToBag({excluded})
        ELSE IF \E x \in hit : x.ttl > excluded.ttl THEN tbl
        ELSE Restrict(tbl, BagToSet(tbl) \ hit)
             (+) [r \in {excluded} |-> Copies(tbl, hit)]

\* Faulty variant: ON CONFLICT DO NOTHING (the first write wins).
Upsert_do_nothing(tbl, excluded) ==
    LET hit == RowsFor(tbl, excluded.hostname, excluded.record_type)
    IN  IF hit = {} THEN tbl (+) SetToBag({excluded}) ELSE tbl

\* INSERT ... ON CONFLICT(hostname, record_type) DO UPDATE SET ...
Upsert(tbl, excluded) ==
    LET hit == RowsFor(tbl, excluded.hostname, excluded.record_type)
    IN  IF hit = {} THEN tbl (+) SetToBag({excluded})
        ELSE Restrict(tbl, BagToSet(tbl) \ hit)
             (+) [r \in {excluded} |-> Copies(tbl, hit)]

add_record(tbl, hostname, ip_address, record_type, ttl, clk) ==
    LET current_time == clk
        expires_at == current_time + ttl
    IN  Upsert(tbl, Row(hostname, ip_address, record_type, ttl, current_time, expires_at))

\* Faulty variant: AND expires_at >= ? (a row is still served at its deadline).
get_record_at_deadline(tbl, hostname, record_type, clk) ==
    LET found == {r \in RowsFor(tbl, hostname, record_type) : r.expires_at >= clk}
    IN  IF found = {} THEN None
        ELSE LET result == CHOOSE r \in found : TRUE
             IN  [kind |-> "dict", ip_address |-> result.ip_address,
                  expires_at |-> result.expires_at]

\* SELECT ip_address, expires_at ... WHERE hostname = ? AND record_type = ?
\* AND expires_at > ?, then fetchone().
get_record(tbl, hostname, record_type, clk) ==
    LET found == {r \in RowsFor(tbl, hostname, record_type) : r.expires_at > clk}
    IN  IF found = {} THEN None
        ELSE LET result == CHOOSE r \in found : TRUE
             IN  [kind |-> "dict", ip_address |-> result.ip_address,
                  expires_at |-> result.expires_at]

\* ---- operations -------------------------------------------------------------
Op(name, hostname, record_type, ip_address, ttl) ==
    [name |-> name, hostname |-> hostname, record_type |-> record_type,
     ip_address |-> ip_address, ttl |-> ttl]

\* No resolve call in progress.
ResolveIdle ==
    [pc |-> "idle", hostname |-> "-", sys |-> "-", sock |-> [kind |-> "-"],
     tool |-> [kind |-> "-"], attempts |-> << >>, result |-> NotCalled]

\* No run of main() in progress.
CliIdle ==
    [pc |-> "idle", command |-> "-", hostname |-> "-", ttl |-> 0,
     conn |-> "unopened", exc |-> "-", out |-> "-"]

\* The callers of lookup_and_cache that may overlap.
Callers == {"c1", "c2"}

\* A caller that has not called yet.
CallerIdle ==
    [pc |-> "idle", hostname |-> "-", ttl |-> 0, ip |-> NotCalled, ret |-> NotCalled,
     wrote |-> FALSE]

NoPut == [kind |-> "no put"]

Init ==
    /\ dns_records = EmptyBag
    /\ now = 0
    /\ resolverCalls = 0
    /\ op = Op("init", "-", "-", "-", 0)
    /\ ret = None
    /\ resolved = NotCalled
    /\ replaced = NoRow
    /\ rcall = ResolveIdle
    /\ cli = CliIdle
    /\ callers = [c \in Callers |-> CallerIdle]
    /\ lastPut = NoPut

\* cache.add_record(hostname, ip_address, record_type, ttl)
AddRecord ==
    \E key \in Keys, ip_address \in IPs, ttl \in TTLs :
        LET hostname == key[1]
            record_type == key[2]
        IN  /\ dns_records' = add_record(dns_records, hostname, ip_address, record_type, ttl, now)
            /\ replaced' = Found(dns_records, hostname, record_type)
            /\ op' = Op("add_record", hostname, record_type, ip_address, ttl)
            /\ ret' = None
            /\ resolverCalls' = 0
            /\ resolved' = NotCalled
            /\ UNCHANGED <<now, rcall, cli, callers, lastPut>>

\* cache.get_record(hostname, record_type)
GetRecord ==
    \E key \in Keys :
        /\ ret' = get_record(dns_records, key[1], key[2], now)
        /\ op' = Op("get_record", key[1], key[2], "-", 0)
        /\ resolverCalls' = 0
        /\ resolved' = NotCalled
        /\ replaced' = NoRow
        /\ UNCHANGED <<dns_records, now, rcall, cli, callers, lastPut>>

\* Everything DNSResolver.resolve can return or raise, over the host's
\* platform and what the socket lookup and the external tool do.
ResolverResults ==
    {resolve(sys, sock, tool) : sys \in Systems, sock \in SocketResults, tool \in ToolResults}

\* The default of the ttl parameter of add_record and lookup_and_cache.
DefaultTTL == 300

\* Faulty variant: the cache is not consulted, every call resolves.
lookup_and_cache_skip_cache(tbl, hostname, ttl, clk, ip, clk2) ==
    IF Truthy(ip)
    THEN [tbl |-> add_record(tbl, hostname, ip.value, "A", ttl, clk2), ret |-> ip,
          calls |-> 1, resolved |-> ip, clk |-> clk2, wrote |-> TRUE]
    ELSE [tbl |-> tbl, ret |-> (IF ip.kind = "raise" THEN ip ELSE None),
          calls |-> 1, resolved |-> ip, clk |-> clk2, wrote |-> FALSE]

\* Faulty variant: ttl is not passed on, add_record falls back to its default.
lookup_and_cache_default_ttl(tbl, hostname, ttl, clk, ip, clk2) ==
    LET cached == get_record(tbl, hostname, "A", clk)
    IN  IF Truthy(cached)
        THEN [tbl |-> tbl, ret |-> Str(cached.ip_address), calls |-> 0,
              resolved |-> NotCalled, clk |-> clk, wrote |-> FALSE]
        ELSE IF Truthy(ip)
        THEN [tbl |-> add_record(tbl, hostname, ip.value, "A", DefaultTTL, clk2), ret |-> ip,
              calls |-> 1, resolved |-> ip, clk |-> clk2, wrote |-> TRUE]
        ELSE [tbl |-> tbl, ret |-> (IF ip.kind = "raise" THEN ip ELSE None),
              calls |-> 1, resolved |-> ip, clk |-> clk2, wrote |-> FALSE]

\* lookup_and_cache(hostname, ttl) called at clk on table tbl, where resolve,
\* if it is called, yields ip and returns at clk2: the table it leaves, what
\* it returns, how often it called resolve and what resolve gave it.
lookup_and_cache(tbl, hostname, ttl, clk, ip, clk2) ==
    LET cached == get_record(tbl, hostname, "A", clk)
    IN  IF Truthy(cached)
        THEN [tbl |-> tbl, ret |-> Str(cached.ip_address), calls |-> 0,
              resolved |-> NotCalled, clk |-> clk, wrote |-> FALSE]
        ELSE IF Truthy(ip)
        THEN [tbl |-> add_record(tbl, hostname, ip.value, "A", ttl, clk2), ret |-> ip,
              calls |-> 1, resolved |-> ip, clk |-> clk2, wrote |-> TRUE]
        ELSE [tbl |-> tbl, ret |-> (IF ip.kind = "raise" THEN ip ELSE None),
              calls |-> 1, resolved |-> ip, clk |-> clk2, wrote |-> FALSE]

\* cache.lookup_and_cache(hostname, ttl).  The resolver's strategies block:
\* delay ticks pass between the datetime.now() of get_record and the one of
\* add_record.
LookupAndCache ==
    \E hostname \in Hostnames, ttl \in TTLs, ip \in ResolverResults, delay \in 0..MaxDelay :
        /\ now + delay <= MaxTime
        /\ LET r == lookup_and_cache(dns_records, hostname, ttl, now, ip, now + delay)
           IN  /\ dns_records' = r.tbl
               /\ now' = r.clk
               /\ ret' = r.ret
               /\ resolverCalls' = r.calls
               /\ resolved' = r.resolved
               /\ replaced' = (IF r.wrote THEN Found(dns_records, hostname, "A") ELSE NoRow)
               /\ op' = Op("lookup_and_cache", hostname, "A", "-", ttl)
               /\ UNCHANGED <<rcall, cli, callers, lastPut>>

\* ORDER BY hostname compares text; the rank of each hostname in that order.
HostnameRank(hostname) == IF hostname = "a.test" THEN 1 ELSE 2

\* Faulty variant: the WHERE clause is missing, expired rows are listed too.
list_records_unfiltered(tbl, clk) ==
    LET n == BagCardinality(tbl)
    IN  {s \in [1..n -> BagToSet(tbl)] :
            /\ \A r \in BagToSet(tbl) : Cardinality({i \in 1..n : s[i] = r}) = CopiesIn(r, tbl)
            /\ \A i, j \in 1..n :
                  i < j => HostnameRank(s[i].hostname) <= HostnameRank(s[j].hostname)}

\* The result sets fetchall() may return for the rows of tbl selected at clk:
\* every selected row once per copy, hostnames ascending, rows of one
\* hostname in an order the statement does not fix.
list_records(tbl, clk) ==
    LET sel == Restrict(tbl, {r \in BagToSet(tbl) : r.expires_at > clk})
        n == BagCardinality(sel)
    IN  {s \in [1..n -> BagToSet(sel)] :
            /\ \A r \in BagToSet(sel) : Cardinality({i \in 1..n : s[i] = r}) = CopiesIn(r, sel)
            /\ \A i, j \in 1..n :
                  i < j => HostnameRank(s[i].hostname) <= HostnameRank(s[j].hostname)}

\* cache.list_records()
ListRecords ==
    \E records \in list_records(dns_records, now) :
        /\ ret' = [kind |-> "list", records |-> records]
        /\ op' = Op("list_records", "-", "-", "-", 0)
        /\ resolverCalls' = 0
        /\ resolved' = NotCalled
        /\ replaced' = NoRow
        /\ UNCHANGED <<dns_records, now, rcall, cli, callers, lastPut>>

\* DELETE FROM dns_records WHERE expires_at < ?
cleanup_expired(tbl, clk) ==
    Restrict(tbl, {r \in BagToSet(tbl) : ~(r.expires_at < clk)})

\* cache.cleanup_expired(): the statement's rowcount is logged, nothing is
\* returned.
CleanupExpired ==
    /\ dns_records' = cleanup_expired(dns_records, now)
    /\ ret' = None
    /\ op' = Op("cleanup_expired", "-", "-", "-", 0)
    /\ resolverCalls' = 0
    /\ resolved' = NotCalled
    /\ replaced' = NoRow
    /\ UNCHANGED <<now, rcall, cli, callers, lastPut>>

\* The wall clock advances.
Tick ==
    /\ now < MaxTime
    /\ now' = now + 1
    /\ op' = Op("tick", "-", "-", "-", 0)
    /\ ret' = None
    /\ resolverCalls' = 0
    /\ resolved' = NotCalled
    /\ replaced' = NoRow
    /\ UNCHANGED <<dns_records, rcall, cli, callers, lastPut>>

Next ==
    \/ AddRecord
    \/ GetRecord
    \/ LookupAndCache
    \/ ListRecords
    \/ CleanupExpired
    \/ Tick

Spec == Init /\ [][Next]_vars

\* ---- DNSResolver.resolve, one strategy at a time ----------------------------
\* Faulty variant: resolve gives up after the socket lookup, no fallback.
after_socket_no_fallback(ip) == "returned"

\* Faulty variant: the early return is missing, the tool runs in any case.
after_socket_no_early_return(ip) == "platform"

\* if ip: return ip -- otherwise fall through to the platform-specific tools.
after_socket(ip) == IF Truthy(ip) THEN "returned" ELSE "platform"

\* The strategy the platform test selects.
platform_strategy(sys) == IF sys = "Windows" THEN "resolve_windows" ELSE "resolve_unix"

\* DNSResolver.resolve(hostname) is called on some host, with what the
\* socket lookup and the external tool will do there.
ResolveCall ==
    /\ rcall.pc = "idle"
    /\ \E hostname \in Hostnames, sys \in Systems, sock \in SocketResults, tool \in ToolResults :
          rcall' = [pc |-> "socket", hostname |-> hostname, sys |-> sys, sock |-> sock,
                    tool |-> tool, attempts |-> << >>, result |-> NotCalled]
    /\ UNCHANGED <<cacheVars, cli, callers, lastPut>>

\* ip = cls.resolve_socket(hostname); if ip: return ip
ResolveTrySocket ==
    /\ rcall.pc = "socket"
    /\ LET ip == resolve_socket(rcall.sock)
       IN  rcall' = [rcall EXCEPT !.attempts = Append(@, "resolve_socket"),
                                  !.result = ip,
                                  !.pc = after_socket(ip)]
    /\ UNCHANGED <<cacheVars, cli, callers, lastPut>>

\* return cls.resolve_windows(hostname) / return cls.resolve_unix(hostname)
ResolveTryPlatform ==
    /\ rcall.pc = "platform"
    /\ LET ip == IF rcall.sys = "Windows" THEN resolve_windows(rcall.tool)
                 ELSE resolve_unix(rcall.tool)
       IN  rcall' = [rcall EXCEPT !.attempts = Append(@, platform_strategy(rcall.sys)),
                                  !.result = ip,
                                  !.pc = IF ip.kind = "raise" THEN "raised" ELSE "returned"]
    /\ UNCHANGED <<cacheVars, cli, callers, lastPut>>

\* The caller has the result (or the exception); the next call may start.
ResolveDone ==
    /\ rcall.pc \in {"returned", "raised"}
    /\ rcall' = ResolveIdle
    /\ UNCHANGED <<cacheVars, cli, callers, lastPut>>

NextResolve ==
    \/ ResolveCall
    \/ ResolveTrySocket
    \/ ResolveTryPlatform
    \/ ResolveDone

SpecResolve == Init /\ [][NextResolve]_vars

\* ---- main(): one run of the command line -----------------------------------
Commands == {"lookup", "list", "cleanup"}

\* args = parser.parse_args(): a command, an optional hostname ("-" when it
\* is left out) and --ttl.
CliStart ==
    /\ cli.pc = "idle"
    /\ \E command \in Commands, hostname \in Hostnames \cup {"-"}, ttl \in TTLs :
          cli' = [CliIdle EXCEPT !.pc = "connect", !.command = command,
                                 !.hostname = hostname, !.ttl = ttl]
    /\ UNCHANGED <<cacheVars, rcall, callers, lastPut>>

\* DNSCache.__init__: self.conn = sqlite3.connect(db_path), which opens the
\* connection or raises.
CliConnect ==
    /\ cli.pc = "connect"
    /\ \/ cli' = [cli EXCEPT !.conn = "open", !.pc = "setup_logging"]
       \/ cli' = [cli EXCEPT !.exc = "sqlite3.Error", !.pc = "exit"]
    /\ UNCHANGED <<cacheVars, rcall, callers, lastPut>>

\* DNSCache.__init__: self.setup_logging(), which opens dns_cache.log or
\* raises; main() has not entered its try block yet.
CliSetupLogging ==
    /\ cli.pc = "setup_logging"
    /\ \/ cli' = [cli EXCEPT !.pc = "setup_database"]
       \/ cli' = [cli EXCEPT !.exc = "OSError", !.pc = "exit"]
    /\ UNCHANGED <<cacheVars, rcall, callers, lastPut>>

\* DNSCache.__init__: self.setup_database(), which creates the table and the
\* index or raises; main() has not entered its try block yet.
CliSetupDatabase ==
    /\ cli.pc = "setup_database"
    /\ \/ cli' = [cli EXCEPT !.pc = "command"]
       \/ cli' = [cli EXCEPT !.exc = "sqlite3.Error", !.pc = "exit"]
    /\ UNCHANGED <<cacheVars, rcall, callers, lastPut>>

\* The body of the try block: the command runs to its end, returns early,
\* or a statement of the storage engine raises; control then reaches finally.
CliCommand ==
    /\ cli.pc = "command"
    /\ \/ /\ cli.command = "lookup"
          /\ cli.hostname = "-"
          /\ cli' = [cli EXCEPT !.out = "Error: hostname required for lookup", !.pc = "finally"]
          /\ UNCHANGED dns_records
       \/ /\ cli.command = "lookup"
          /\ cli.hostname # "-"
          /\ \E ip \in ResolverResults :
                LET r == lookup_and_cache(dns_records, cli.hostname, cli.ttl, now, ip, now)
                IN  /\ dns_records' = r.tbl
                    /\ cli' = [cli EXCEPT
                                 !.pc = "finally",
                                 !.exc = IF r.ret.kind = "raise" THEN r.ret.exc ELSE @,
                                 !.out = IF r.ret.kind = "raise" THEN @
                                         ELSE IF Truthy(r.ret) THEN "hostname -> ip"
                                         ELSE "Failed to resolve"]
       \/ /\ cli.command = "list"
          /\ \E records \in list_records(dns_records, now) :
                cli' = [cli EXCEPT !.pc = "finally",
                                   !.out = IF Len(records) = 0 THEN "No active records found"
                                           ELSE "Active DNS Records"]
          /\ UNCHANGED dns_records
       \/ /\ cli.command = "cleanup"
          /\ dns_records' = cleanup_expired(dns_records, now)
          /\ cli' = [cli EXCEPT !.pc = "finally", !.out = "Cleanup completed"]
       \/ /\ cli.command # "lookup" \/ cli.hostname # "-"
          /\ cli' = [cli EXCEPT !.pc = "finally", !.exc = "sqlite3.Error"]
          /\ UNCHANGED dns_records
    /\ UNCHANGED <<now, resolverCalls, op, ret, resolved, replaced, rcall, callers, lastPut>>

\* finally: cache.close()
CliFinally ==
    /\ cli.pc = "finally"
    /\ cli' = [cli EXCEPT !.conn = "closed", !.pc = "exit"]
    /\ UNCHANGED <<cacheVars, rcall, callers, lastPut>>

\* The process has ended; the command line may be run again on the same
\* database file.
CliExit ==
    /\ cli.pc = "exit"
    /\ cli' = CliIdle
    /\ UNCHANGED <<cacheVars, rcall, callers, lastPut>>

NextCLI ==
    \/ CliStart
    \/ CliConnect
    \/ CliSetupLogging
    \/ CliSetupDatabase
    \/ CliCommand
    \/ CliFinally
    \/ CliExit

SpecCLI == Init /\ [][NextCLI]_vars

\* ---- overlapping callers of lookup_and_cache -------------------------------
\* A caller enters lookup_and_cache(hostname, ttl); callers that overlap ask
\* for the same hostname.
OverlapCall(c) ==
    /\ callers[c].pc = "idle"
    /\ \E hostname \in Hostnames, ttl \in TTLs :
          /\ \A d \in Callers : callers[d].pc # "idle" => callers[d].hostname = hostname
          /\ callers' = [callers EXCEPT ![c] = [CallerIdle EXCEPT !.pc = "get_record",
                                                              !.hostname = hostname,
                                                              !.ttl = ttl]]
    /\ UNCHANGED <<cacheVars, rcall, cli, lastPut>>

\* cached = self.get_record(hostname); if cached: return cached["ip_address"]
OverlapGet(c) ==
    /\ callers[c].pc = "get_record"
    /\ LET cached == get_record(dns_records, callers[c].hostname, "A", now)
       IN  callers' = [callers EXCEPT ![c] =
                IF Truthy(cached)
                THEN [@ EXCEPT !.pc = "done", !.ret = Str(cached.ip_address)]
                ELSE [@ EXCEPT !.pc = "resolve"]]
    /\ UNCHANGED <<cacheVars, rcall, cli, lastPut>>

\* ip = DNSResolver.resolve(hostname); without an address the call ends.
OverlapResolve(c) ==
    /\ callers[c].pc = "resolve"
    /\ \E ip \in ResolverResults :
          callers' = [callers EXCEPT ![c] =
                IF Truthy(ip)
                THEN [@ EXCEPT !.pc = "add_record", !.ip = ip]
                ELSE [@ EXCEPT !.pc = "done", !.ip = ip,
                               !.ret = IF ip.kind = "raise" THEN ip ELSE None]]
    /\ UNCHANGED <<cacheVars, rcall, cli, lastPut>>

\* self.add_record(hostname, ip, "A", ttl); return ip -- the upsert is one
\* statement in one transaction.
OverlapPut(c) ==
    /\ callers[c].pc = "add_record"
    /\ dns_records' = add_record(dns_records, callers[c].hostname, callers[c].ip.value,
                                 "A", callers[c].ttl, now)
    /\ lastPut' = [caller |-> c, hostname |-> callers[c].hostname,
                   ip_address |-> callers[c].ip.value, ttl |-> callers[c].ttl, at |-> now]
    /\ callers' = [callers EXCEPT ![c] = [@ EXCEPT !.pc = "done", !.ret = callers[c].ip,
                                                   !.wrote = TRUE]]
    /\ UNCHANGED <<now, resolverCalls, op, ret, resolved, replaced, rcall, cli>>

NextOverlap ==
    \/ \E c \in Callers : OverlapCall(c)
    \/ \E c \in Callers : OverlapGet(c)
    \/ \E c \in Callers : OverlapResolve(c)
    \/ \E c \in Callers : OverlapPut(c)
    \/ Tick

SpecOverlap == Init /\ [][NextOverlap]_vars

\* ---- properties --------------------------------------------------------------
\* The rows under a key that a read at clk treats as fresh.
FreshRows(tbl, hostname, record_type, clk) ==
    {r \in RowsFor(tbl, hostname, record_type) : r.expires_at > clk}

IsWrite(o) == o.name \in {"add_record", "lookup_and_cache"}

\* C1 (freshness invariant): get_record(hostname, record_type) returns a
\* record if and only if a row for that key exists with expires_at strictly
\* greater than the clock, and then it is that row's address and deadline;
\* a row whose expires_at is the clock value or earlier is reported absent.
C1_Freshness ==
    op.name = "get_record" =>
        /\ Truthy(ret) <=> FreshRows(dns_records, op.hostname, op.record_type, now) # {}
        /\ Truthy(ret) =>
              \E r \in FreshRows(dns_records, op.hostname, op.record_type, now) :
                  ret = [kind |-> "dict", ip_address |-> r.ip_address, expires_at |-> r.expires_at]
        /\ (\A r \in RowsFor(dns_records, op.hostname, op.record_type) : r.expires_at <= now)
              => ret = None

\* C1 witness: a get_record that found an unswept row exactly at its deadline
\* and reported it absent.
C1_Witness ==
    /\ op.name = "get_record"
    /\ \E r \in RowsFor(dns_records, op.hostname, op.record_type) :
          r.expires_at = now /\ r.ttl > 0
    /\ ret = None

\* C2 (one row per key): the table never holds more than one row for a
\* (hostname, record_type) pair, whatever was written, read, swept or listed.
C2_OneRowPerKey ==
    \A hostname \in Hostnames, record_type \in RecordTypes :
        Copies(dns_records, RowsFor(dns_records, hostname, record_type)) <= 1

\* C2 witness: a lookup re-resolved a key whose row was expired but unswept,
\* while other keys hold rows too.
C2_Witness ==
    /\ op.name = "lookup_and_cache"
    /\ replaced # NoRow
    /\ replaced.expires_at <= now
    /\ BagCardinality(dns_records) >= 2

\* C3 (derived deadline): every row has expires_at = created_at + ttl; a row
\* that is new or changed in a step was written by that step's add_record
\* (directly or on a lookup's miss path) with created_at the clock at the
\* write, and no other step changes a row.
C3_ExpiresAtDerived ==
    /\ [](\A r \in BagToSet(dns_records) : r.expires_at = r.created_at + r.ttl)
    /\ [][\A r \in BagToSet(dns_records') :
            \/ r \in BagToSet(dns_records)
            \/ /\ IsWrite(op')
               /\ r.hostname = op'.hostname
               /\ r.record_type = op'.record_type
               /\ r.ttl = op'.ttl
               /\ r.created_at = now']_vars

\* C3 witness: a key was rewritten after the clock had advanced past the
\* creation of the row it replaced.
C3_Witness ==
    /\ IsWrite(op)
    /\ replaced # NoRow
    /\ replaced.created_at < now
    /\ \E r \in RowsFor(dns_records, op.hostname, op.record_type) : r.created_at = now

\* C4 (write wins): an add_record on a key that already has a row leaves
\* exactly one row for the key, holding the new address and ttl and the
\* created_at/expires_at of this write, whatever the old row held.
C4_WriteWins ==
    (op.name = "add_record" /\ replaced # NoRow) =>
        /\ RowsFor(dns_records, op.hostname, op.record_type)
              = {Row(op.hostname, op.ip_address, op.record_type, op.ttl, now, now + op.ttl)}
        /\ BagCardinality(Restrict(dns_records,
                RowsFor(dns_records, op.hostname, op.record_type))) = 1

\* C4 witness: the replaced row was still fresh, had another address and a
\* longer ttl than the new one.
C4_Witness ==
    /\ op.name = "add_record"
    /\ replaced # NoRow
    /\ replaced.ip_address # op.ip_address
    /\ op.ttl < replaced.ttl
    /\ replaced.expires_at > now

\* C5 (idempotence on value): an add_record whose address and ttl equal
\* those of the row already stored for the key leaves one row with that
\* address and ttl, created_at/expires_at being those of the later call.
C5_UpsertIdempotent ==
    (/\ op.name = "add_record"
     /\ replaced # NoRow
     /\ replaced.ip_address = op.ip_address
     /\ replaced.ttl = op.ttl) =>
        /\ Copies(dns_records, RowsFor(dns_records, op.hostname, op.record_type)) = 1
        /\ \A r \in RowsFor(dns_records, op.hostname, op.record_type) :
              /\ r.ip_address = replaced.ip_address
              /\ r.ttl = replaced.ttl
              /\ r.created_at = now
              /\ r.expires_at = now + r.ttl
              /\ r.created_at >= replaced.created_at
              /\ r.expires_at >= replaced.expires_at

\* C5 witness: the same add_record was repeated after the clock advanced.
C5_Witness ==
    /\ op.name = "add_record"
    /\ replaced # NoRow
    /\ replaced.ip_address = op.ip_address
    /\ replaced.ttl = op.ttl
    /\ replaced.created_at < now

\* C6 (cache short-circuit): a lookup_and_cache called while the key
\* (hostname, "A") has a fresh row returns that row's stored address and
\* makes no call of DNSResolver.resolve.
C6_CacheShortCircuit ==
    [][\A r \in BagToSet(dns_records) :
          (/\ op'.name = "lookup_and_cache"
           /\ r \in FreshRows(dns_records, op'.hostname, "A", now)) =>
              /\ ret' = Str(r.ip_address)
              /\ resolverCalls' = 0
              /\ resolved' = NotCalled]_vars

\* C6 witness: a lookup was answered from the cache.
C6_Witness ==
    /\ op.name = "lookup_and_cache"
    /\ resolverCalls = 0
    /\ ret.kind = "str"
    /\ \E r \in FreshRows(dns_records, op.hostname, "A", now) : ret = Str(r.ip_address)

\* C7 (cache miss path): a lookup_and_cache called while the key has no
\* fresh row (none, or an expired unswept one), whose resolver yields an
\* address, calls resolve once, leaves the one row (hostname, address, "A",
\* ttl) created at the clock of the write, returns the address, and a
\* get_record at any clock value before created_at + ttl then returns it.
C7_CacheMissPath ==
    [][(/\ op'.name = "lookup_and_cache"
        /\ FreshRows(dns_records, op'.hostname, "A", now) = {}
        /\ Truthy(resolved')) =>
           /\ resolverCalls' = 1
           /\ ret' = resolved'
           /\ RowsFor(dns_records', op'.hostname, "A")
                 = {Row(op'.hostname, resolved'.value, "A", op'.ttl, now', now' + op'.ttl)}
           /\ Copies(dns_records', RowsFor(dns_records', op'.hostname, "A")) = 1
           /\ \A clk \in now'..(now' + op'.ttl - 1) :
                 /\ Truthy(get_record(dns_records', op'.hostname, "A", clk))
                 /\ get_record(dns_records', op'.hostname, "A", clk).ip_address = resolved'.value]_vars

\* C7 witness: a miss on an expired, unswept row was resolved and stored
\* with a positive ttl.
C7_Witness ==
    /\ op.name = "lookup_and_cache"
    /\ resolverCalls = 1
    /\ Truthy(resolved)
    /\ replaced # NoRow
    /\ op.ttl > 0
    /\ \E r \in FreshRows(dns_records, op.hostname, "A", now) : r.ip_address = resolved.value

\* C8 (failed resolution writes nothing): a lookup_and_cache that misses
\* the cache and whose resolver strategies all fail returns None and leaves
\* the table exactly as it was.
C8_FailedResolutionWritesNothing ==
    [][(/\ op'.name = "lookup_and_cache"
        /\ resolverCalls' = 1
        /\ ~Truthy(resolved')) =>
           /\ ret' = None
           /\ dns_records' = dns_records]_vars

\* C9 (sweep completeness): right after cleanup_expired no row with
\* expires_at at or before the clock remains.
C9_SweepCompleteness ==
    op.name = "cleanup_expired" =>
        \A r \in BagToSet(dns_records) : r.expires_at > now

\* C10 (sweep exactness and idempotence): cleanup_expired removes exactly the
\* rows that are not fresh, keeps every fresh row, returns the number of rows
\* removed, and a second sweep at the same clock value removes nothing.
C10_SweepExact ==
    [][op'.name = "cleanup_expired" =>
          LET fresh == Restrict(dns_records, {r \in BagToSet(dns_records) : r.expires_at > now})
          IN  /\ dns_records' = fresh
              /\ ret' = [kind |-> "int",
                         value |-> BagCardinality(dns_records) - BagCardinality(fresh)]
              /\ cleanup_expired(dns_records', now') = dns_records']_vars

\* C11 (list_records): the list returned holds exactly the rows with
\* expires_at > now, each once, no expired row even if unswept, hostnames
\* ascending; list_records and get_record leave the table unchanged.
C11_ListFresh ==
    /\ [](op.name = "list_records" =>
            LET records == ret.records
                fresh == {r \in BagToSet(dns_records) : r.expires_at > now}
            IN  /\ \A i \in 1..Len(records) : records[i] \in fresh
                /\ \A r \in fresh :
                      Cardinality({i \in 1..Len(records) : records[i] = r})
                          = CopiesIn(r, dns_records)
                /\ \A i, j \in 1..Len(records) :
                      i < j => HostnameRank(records[i].hostname)
                                  <= HostnameRank(records[j].hostname))
    /\ [][op'.name \in {"list_records", "get_record"} => dns_records' = dns_records]_vars

\* C11 witness: a listing of fresh rows of both hostnames that left out an
\* expired, unswept row.
C11_Witness ==
    /\ op.name = "list_records"
    /\ \E r \in BagToSet(dns_records) : r.expires_at <= now
    /\ \E i, j \in 1..Len(ret.records) : ret.records[i].hostname # ret.records[j].hostname

\* C16, as claimed (re-lookup always refreshes): after a lookup_and_cache
\* that returns an address for a key that already had a row, that row has
\* created_at = now and expires_at = now + ttl, whether or not the old row
\* was still fresh.
C16_RelookupAlwaysRefreshes ==
    [][(/\ op'.name = "lookup_and_cache"
        /\ RowsFor(dns_records, op'.hostname, "A") # {}
        /\ ret'.kind = "str") =>
           \A r \in RowsFor(dns_records', op'.hostname, "A") :
               r.created_at = now' /\ r.expires_at = now' + op'.ttl]_vars

\* C16, amended: a re-lookup refreshes the row (created_at = now,
\* expires_at = now + ttl) when the old row is no longer fresh and the
\* resolver yields an address; when the old row is still fresh the lookup is
\* a cache hit and leaves the row as it was.
C16_RelookupRefreshesExpired ==
    [][op'.name = "lookup_and_cache" =>
          /\ (/\ RowsFor(dns_records, op'.hostname, "A") # {}
              /\ FreshRows(dns_records, op'.hostname, "A", now) = {}
              /\ Truthy(resolved')) =>
                 \A r \in RowsFor(dns_records', op'.hostname, "A") :
                     r.created_at = now' /\ r.expires_at = now' + op'.ttl
          /\ FreshRows(dns_records, op'.hostname, "A", now) # {} =>
                 /\ dns_records' = dns_records
                 /\ now' = now]_vars

\* C16 witness: a lookup at a later clock value replaced an expired row that
\* an earlier write had created.
C16_Witness ==
    /\ op.name = "lookup_and_cache"
    /\ replaced # NoRow
    /\ replaced.created_at < now
    /\ replaced.ttl > 0
    /\ \E r \in RowsFor(dns_records, op.hostname, "A") : r.created_at = now

\* C17 (positive ttl): every row has a positive ttl and so is fresh at the
\* instant it is written.
C17_PositiveTTL ==
    \A r \in BagToSet(dns_records) : r.ttl > 0 /\ r.expires_at > r.created_at

\* C19 (key isolation): a write leaves every row under another hostname or
\* another record type as it was; lookup_and_cache reads and writes the
\* (hostname, "A") row only, so a fresh row of another type gives no cache hit.
C19_KeyIsolation ==
    [][/\ IsWrite(op') =>
            \A r \in BagToSet(dns_records) :
                (r.hostname # op'.hostname \/ r.record_type # op'.record_type) =>
                    /\ r \in BagToSet(dns_records')
                    /\ CopiesIn(r, dns_records') = CopiesIn(r, dns_records)
       /\ op'.name = "lookup_and_cache" =>
            /\ op'.record_type = "A"
            /\ (\A r \in BagToSet(dns_records) :
                    (r.hostname = op'.hostname /\ r.record_type = "A") => r.expires_at <= now)
                  => resolverCalls' = 1]_vars

\* C19 witness: a lookup missed and wrote its "A" row while a fresh row of
\* another type for the same hostname stayed in the table.
C19_Witness ==
    /\ op.name = "lookup_and_cache"
    /\ resolverCalls = 1
    /\ Truthy(resolved)
    /\ \E r \in BagToSet(dns_records) :
          r.hostname = op.hostname /\ r.record_type # "A" /\ r.expires_at > now

\* The external tool exited zero and its output holds a line from which the
\* strategy of the platform sys extracts an address.
ToolYieldsAddress(sys, tool) ==
    /\ tool.kind = "output"
    /\ \E i \in 1..Len(tool.lines) :
          /\ IsIPv4(tool.lines[i].token)
          /\ tool.lines[i].label = (IF sys = "Windows" THEN "Address:" ELSE "")

ResolveEnded == rcall.pc \in {"returned", "raised"}

\* C12 (fallback order): when the socket lookup fails, the strategy of the
\* host's platform has been attempted, after the socket lookup, by the time
\* resolve ends; resolve returns the fallback's address if it produced one,
\* agrees with resolve() as lookup_and_cache uses it, and returns None only
\* if both strategies failed.
C12_FallbackOrder ==
    (ResolveEnded /\ rcall.sock.kind = "gaierror") =>
        /\ rcall.attempts = <<"resolve_socket", platform_strategy(rcall.sys)>>
        /\ ToolYieldsAddress(rcall.sys, rcall.tool) =>
              /\ rcall.pc = "returned"
              /\ rcall.result.kind = "str"
              /\ \E i \in 1..Len(rcall.tool.lines) :
                    rcall.result.value = rcall.tool.lines[i].token
        /\ rcall.result = None => ~ToolYieldsAddress(rcall.sys, rcall.tool)
        /\ rcall.result = resolve(rcall.sys, rcall.sock, rcall.tool)

\* C12 witness: the socket lookup failed and dig's output gave the address.
C12_Witness ==
    /\ rcall.pc = "returned"
    /\ rcall.sock.kind = "gaierror"
    /\ rcall.sys = "Linux"
    /\ rcall.result.kind = "str"

\* C13 (failures are values): when the socket lookup fails and the external
\* tool exits non-zero, is not found, or prints no address, resolve returns
\* None and raises nothing.
C13_FailuresAreValues ==
    (/\ ResolveEnded
     /\ rcall.sock.kind = "gaierror"
     /\ ~ToolYieldsAddress(rcall.sys, rcall.tool)) =>
        /\ rcall.pc = "returned"
        /\ rcall.result = None

\* C18 (no retries): no strategy is attempted twice and at most one
\* platform strategy is attempted; a socket lookup that yields an address
\* ends resolve with that address and no tool is run; otherwise exactly the
\* strategy of the host's platform runs and the other one never does.
C18_OneAttemptEach ==
    /\ \A i, j \in 1..Len(rcall.attempts) : i # j => rcall.attempts[i] # rcall.attempts[j]
    /\ Cardinality({i \in 1..Len(rcall.attempts) :
                       rcall.attempts[i] \in {"resolve_windows", "resolve_unix"}}) <= 1
    /\ ResolveEnded =>
          IF rcall.sock.kind = "ok"
          THEN /\ rcall.attempts = <<"resolve_socket">>
               /\ rcall.pc = "returned"
               /\ rcall.result = Str(rcall.sock.ip)
          ELSE /\ Len(rcall.attempts) = 2
               /\ rcall.attempts[1] = "resolve_socket"
               /\ rcall.attempts[2] = (IF rcall.sys = "Windows" THEN "resolve_windows"
                                       ELSE "resolve_unix")

\* C18 witness: on Windows the socket lookup answered although nslookup
\* would have answered too, and nslookup was not run.
C18_Witness ==
    /\ rcall.pc = "returned"
    /\ rcall.sys = "Windows"
    /\ rcall.sock.kind = "ok"
    /\ ToolYieldsAddress(rcall.sys, rcall.tool)
    /\ rcall.attempts = <<"resolve_socket">>

\* C14 (connection release): when a run of main() ends, a connection that
\* was opened has been closed, whatever path the run took.
C14_ConnectionReleased ==
    cli.pc = "exit" => cli.conn # "open"

\* C15 (overlapping misses): once both callers have finished their
\* lookup_and_cache for one hostname and at least one of them wrote, there
\* is exactly one row for (hostname, "A"), and its address, ttl, created_at
\* and expires_at are those of the last add_record alone, with
\* expires_at = created_at + ttl.
C15_OverlappingMisses ==
    ((\A c \in Callers : callers[c].pc = "done") /\ lastPut # NoPut) =>
        /\ RowsFor(dns_records, lastPut.hostname, "A")
              = {Row(lastPut.hostname, lastPut.ip_address, "A", lastPut.ttl,
                     lastPut.at, lastPut.at + lastPut.ttl)}
        /\ BagCardinality(dns_records) = 1
        /\ \A r \in BagToSet(dns_records) : r.expires_at = r.created_at + r.ttl

\* C15 witness: both callers missed, both resolved (to different addresses,
\* with different ttls) and both wrote, the second write at a later clock
\* value than the first.
C15_Witness ==
    /\ \A c \in Callers : callers[c].pc = "done" /\ callers[c].wrote
    /\ callers["c1"].ip # callers["c2"].ip
    /\ callers["c1"].ttl # callers["c2"].ttl
    /\ lastPut # NoPut
    /\ lastPut.at > 0
====
